---- MODULE Spec2Model ----
(***************************************************************************)
(* State-machine model of the blog's storage core (database.js) and of the *)
(* HTTP handlers that drive it (the express server).                       *)
(*                                                                         *)
(* Every handler is synchronous (better-sqlite3 and the fs *Sync calls),   *)
(* so one request is one atomic step.  A file-system call that throws is   *)
(* an input of the step (the fault parameter f): the step then ends where  *)
(* the code's exception handling leaves the two stores.                    *)
(***************************************************************************)
EXTENDS Integers, Sequences, FiniteSets, TLC

\* ------------------------------------------------------------------ bounds
\* Number of steps (requests served, clock ticks) a behaviour takes.
MaxSteps == 4
\* Largest post id a request names in its URL.
MaxId == 2
\* Number of characters typed one by one into a title.
MaxTyped == 3
\* Length of the run of word characters that makes a title a long one.
LongRun == 98
\* Number of createSlug calls made on one title.
MaxCalls == 2

\* ------------------------------------------------------------- small sets
\* Ids a request can name in its URL.
Ids == 1..MaxId
\* Request bodies: a title is a sequence of characters ("" is <<>>).
Titles == {<<"A">>, <<"b">>}
Contents == {"x", "y"}
Sessions == {"s1", "s2"}
Usernames == {"admin"}
Passwords == {"p", "q"}
Salts == {"s"}
AssetNames == {"img"}

\* A session without userId.
NoUser == 0

Max(a, b) == IF a >= b THEN a ELSE b
Min(a, b) == IF a <= b THEN a ELSE b

\* ---------------------------------------------------------- createSlug
SlugMaxLen == 100

\* String.prototype.toLowerCase on the characters of the model.
LowerChar(c) ==
  CASE c = "A" -> "a"
    [] c = "B" -> "b"
    [] c = "ZH" -> "zh"
    [] OTHER -> c

toLowerCase(s) == [i \in 1..Len(s) |-> LowerChar(s[i])]

\* The class [\w\u0400-\u04FF]: word characters and the Cyrillic block
\* ("zh", "ZH" stand for a Cyrillic letter in lower and upper case).
Permitted(c) == c \in {"a", "b", "A", "B", "0", "1", "_", "zh", "ZH"}

\* .replace(/[^\w\u0400-\u04FF]+/g, '-'): the first character of a run
\* outside the class becomes the separator, the rest of the run goes.
ReplaceRuns(s) ==
  LET at(i) == IF Permitted(s[i]) THEN <<s[i]>>
               ELSE IF i = 1 \/ Permitted(s[i - 1]) THEN <<"-">>
               ELSE <<>>
      marked == [i \in 1..Len(s) |-> at(i)]
      kept == SelectSeq(marked, LAMBDA m : m # <<>>)
  IN  [i \in 1..Len(kept) |-> kept[i][1]]

\* /^-+/
DropLeading(s) ==
  LET other == {i \in 1..Len(s) : s[i] # "-"}
  IN  IF other = {} THEN <<>>
      ELSE SubSeq(s, CHOOSE i \in other : \A j \in other : i <= j, Len(s))

\* /-+$/
DropTrailing(s) ==
  LET other == {i \in 1..Len(s) : s[i] # "-"}
  IN  IF other = {} THEN <<>>
      ELSE SubSeq(s, 1, CHOOSE i \in other : \A j \in other : i >= j)

\* .replace(/^-+|-+$/g, '')
TrimSeparators(s) == DropTrailing(DropLeading(s))

\* Mutant: no .substring(0, 100).
TruncateNone(s) == s

\* .substring(0, 100)
Truncate(s) == SubSeq(s, 1, Min(Len(s), SlugMaxLen))

createSlug(title) == Truncate(TrimSeparators(ReplaceRuns(toLowerCase(title))))

\* ------------------------------------------------------------------ state
VARIABLES
  posts,     \* table posts: id -> [title, slug, created_at, updated_at]
  seq,       \* sqlite_sequence entry of posts (AUTOINCREMENT high-water mark)
  dirs,      \* articles root: directory name -> [content, info, assets]
  uploads,   \* temporary files staged by multer under uploads/
  users,     \* table users
  sessions,  \* session store: session -> userId (NoUser when unset)
  clock,     \* wall clock, in seconds
  resp,      \* the response to the last request
  issued,    \* history: ids returned by successful createPost calls
  everRows,  \* history: ids that some row of posts has had
  loggedIn,  \* history: sessions whose last login succeeded, with no logout since
  steps,     \* number of steps taken so far
  draft,     \* the title text a client is composing
  slugs,     \* what the createSlug calls on that text returned, in call order
  calls      \* PUT requests of two clients: where each one's handler stands

vars == <<posts, seq, dirs, uploads, users, sessions, clock, resp, issued, everRows,
          loggedIn, steps, draft, slugs, calls>>

slugVars == <<draft, slugs>>

history == <<issued, everRows, loggedIn>>

\* One more step of the behaviour.
Step == steps < MaxSteps /\ steps' = steps + 1

stores == <<posts, seq, dirs, uploads>>

\* Two clients that send their PUT /api/post/:id at the same time.
Clients == {"c1", "c2"}
\* A client that has sent nothing.
NoCall == [pc |-> "idle", id |-> 0, waited |-> FALSE]

\* CURRENT_TIMESTAMP ('YYYY-MM-DD HH:MM:SS') and new Date().toISOString()
\* name the same instant in two different formats.
SqlNow == <<"sql", clock>>
IsoNow == <<"iso", clock>>

\* A file is the set of its contents: {} when the file does not exist.
NoFile == {}
File(x) == {x}
Read(file) == CHOOSE x \in file : TRUE

Put(f, k, v) == [x \in DOMAIN f \cup {k} |-> IF x = k THEN v ELSE f[x]]
Remove(f, k) == [x \in DOMAIN f \ {k} |-> f[x]]

\* fs.existsSync(path.join(ARTICLES_DIR, name))
existsSync(name) == name \in DOMAIN dirs

\* postId.toString()
DirName(id) == ToString(id)

EmptyDir == [content |-> NoFile, info |-> NoFile, assets |-> {}]

\* The UNIQUE constraint on posts.slug, for the row `id` being written.
SlugConflict(p, id, slug) == \E i \in DOMAIN p : i # id /\ p[i].slug = slug

MaxRowid(p) == IF DOMAIN p = {} THEN 0 ELSE CHOOSE m \in DOMAIN p : \A i \in DOMAIN p : i <= m

\* The rowid AUTOINCREMENT gives the next inserted row.
NextRowid == Max(seq, MaxRowid(posts)) + 1

\* createArticleFolder: the directory with its assets subdirectory, unless
\* it exists already.
createArticleFolder(d, postId) ==
  IF DirName(postId) \in DOMAIN d THEN d ELSE Put(d, DirName(postId), EmptyDir)

\* Mutant: the content file is opened with flag 'wx' and an existing file is
\* left as it is.
writeContentExclusive(d, name, content) ==
  IF d[name].content # NoFile THEN d
  ELSE Put(d, name, [d[name] EXCEPT !.content = File(content)])

writeContent(d, name, content) == Put(d, name, [d[name] EXCEPT !.content = File(content)])
writeInfo(d, name, info) == Put(d, name, [d[name] EXCEPT !.info = File(info)])

\* ------------------------------------------------------------- createPost
\* Mutant: the article folder is made before the INSERT, under the id the
\* row would get.
createPostFolderFirst(title, content, f) ==
  LET slug == createSlug(title)
      postId == NextRowid
      name == DirName(postId)
      row == [title |-> title, slug |-> slug, created_at |-> SqlNow, updated_at |-> SqlNow]
      info == [id |-> postId, title |-> title, slug |-> slug,
               created_at |-> IsoNow, updated_at |-> IsoNow]
      rollback(err, d) == [ok |-> FALSE, err |-> err, id |-> 0,
                           posts |-> posts, seq |-> seq, dirs |-> d]
      d1 == createArticleFolder(dirs, postId)
      d2 == writeContent(d1, name, content)
      d3 == writeInfo(d2, name, info)
  IN  IF f = "mkdir" /\ ~existsSync(name) THEN rollback("EIO", dirs)
      ELSE IF SlugConflict(posts, postId, slug) THEN rollback("SQLITE_CONSTRAINT_UNIQUE", d1)
      ELSE IF f = "content" THEN rollback("EIO", d1)
      ELSE IF f = "info" THEN rollback("EIO", d2)
      ELSE [ok |-> TRUE, err |-> "none", id |-> postId,
            posts |-> Put(posts, postId, row), seq |-> postId, dirs |-> d3]

\* The outcome of createPost(title, content) when the fs call named by f
\* throws (f = "none": no call throws).  The INSERT runs in a transaction
\* that an exception rolls back; the file system is not part of it.
createPost(title, content, f) ==
  LET slug == createSlug(title)
      postId == NextRowid
      name == DirName(postId)
      row == [title |-> title, slug |-> slug, created_at |-> SqlNow, updated_at |-> SqlNow]
      info == [id |-> postId, title |-> title, slug |-> slug,
               created_at |-> IsoNow, updated_at |-> IsoNow]
      rollback(err, d) == [ok |-> FALSE, err |-> err, id |-> 0,
                           posts |-> posts, seq |-> seq, dirs |-> d]
      d1 == createArticleFolder(dirs, postId)
      d2 == writeContent(d1, name, content)
      d3 == writeInfo(d2, name, info)
  IN  IF SlugConflict(posts, postId, slug) THEN rollback("SQLITE_CONSTRAINT_UNIQUE", dirs)
      ELSE IF f = "mkdir" /\ ~existsSync(name) THEN rollback("EIO", dirs)
      ELSE IF f = "content" THEN rollback("EIO", d1)
      ELSE IF f = "info" THEN rollback("EIO", d2)
      ELSE [ok |-> TRUE, err |-> "none", id |-> postId,
            posts |-> Put(posts, postId, row), seq |-> postId, dirs |-> d3]

CreateFaults == {"none", "mkdir", "content", "info"}

\* Request bodies of POST /api/posts: the complete ones with each fs call
\* that may throw, and the two incomplete ones.
CreateInputs ==
  (Titles \X Contents \X CreateFaults) \cup {<<<<>>, "x", "none">>, <<<<"A">>, "", "none">>}

\* Mutant: a route registered without the requireAuth middleware.
NoAuthCheck(s) == TRUE

\* requireAuth
Authorized(s) == sessions[s] # NoUser

Respond(op, status, id, err) == resp' = [op |-> op, status |-> status, id |-> id, err |-> err]

\* POST /api/posts
CreateReq(s, title, content, f) ==
  /\ Step
  /\ UNCHANGED <<slugVars, calls>>
  /\ IF ~Authorized(s)
     THEN Respond("create", 401, 0, "auth") /\ UNCHANGED <<stores, issued, everRows>>
     ELSE IF title = <<>> \/ content = ""
     THEN Respond("create", 400, 0, "validation") /\ UNCHANGED <<stores, issued, everRows>>
     ELSE LET r == createPost(title, content, f)
          IN  /\ posts' = r.posts
              /\ seq' = r.seq
              /\ dirs' = r.dirs
              /\ issued' = IF r.ok THEN issued \cup {r.id} ELSE issued
              /\ everRows' = everRows \cup DOMAIN r.posts
              /\ Respond("create", IF r.ok THEN 200 ELSE 400, r.id, r.err)
              /\ UNCHANGED uploads
  /\ UNCHANGED <<users, sessions, clock, loggedIn>>

\* ------------------------------------------------------------- getPostById
getPostById(id) ==
  IF id \notin DOMAIN posts THEN [found |-> FALSE]
  ELSE LET name == DirName(id)
           content == IF existsSync(name) /\ dirs[name].content # NoFile
                      THEN Read(dirs[name].content) ELSE ""
           info == IF existsSync(name) THEN dirs[name].info ELSE NoFile
       IN  [found |-> TRUE, id |-> id, title |-> posts[id].title, slug |-> posts[id].slug,
            created_at |-> posts[id].created_at, updated_at |-> posts[id].updated_at,
            content |-> content, info |-> info]

\* -------------------------------------------------------------- updatePost
UpdateFaults == {"none", "content", "info"}

UpdateInputs ==
  (Titles \X Contents \X UpdateFaults) \cup {<<<<>>, "x", "none">>, <<<<"A">>, "", "none">>}

\* Mutant: the snapshot is written anew from the three fields of the call.
MergeInfoFresh(old, title, slug) ==
  [title |-> title, slug |-> slug, updated_at |-> IsoNow]

\* info.title = title; info.slug = slug; info.updated_at = ...: the other
\* fields of the parsed snapshot stay.
MergeInfo(old, title, slug) ==
  [title |-> title, slug |-> slug, updated_at |-> IsoNow] @@ old

\* Mutant: the row is written with INSERT OR REPLACE, which sets created_at
\* anew, and the snapshot is written from scratch.
updatePostReplace(id, title, content, f) ==
  LET slug == createSlug(title)
      name == DirName(id)
      p1 == IF id \in DOMAIN posts
            THEN [posts EXCEPT ![id] = [title |-> title, slug |-> slug,
                                        created_at |-> SqlNow, updated_at |-> SqlNow]]
            ELSE posts
      d1 == writeContent(dirs, name, content)
      d2 == writeInfo(d1, name, MergeInfo(<<>>, title, slug))
      throw(err, p, d) == [ok |-> FALSE, err |-> err, posts |-> p, dirs |-> d]
  IN  IF id \in DOMAIN posts /\ SlugConflict(posts, id, slug)
      THEN throw("SQLITE_CONSTRAINT_UNIQUE", posts, dirs)
      ELSE IF ~existsSync(name) THEN throw("ENOENT", p1, dirs)
      ELSE IF f = "content" THEN throw("EIO", p1, dirs)
      ELSE IF f = "info" THEN throw("EIO", p1, d1)
      ELSE [ok |-> TRUE, err |-> "none", posts |-> p1, dirs |-> d2]

\* Mutant: the two files are written before the UPDATE runs.
updatePostFilesFirst(id, title, content, f) ==
  LET slug == createSlug(title)
      name == DirName(id)
      p1 == IF id \in DOMAIN posts
            THEN [posts EXCEPT ![id] = [@ EXCEPT !.title = title, !.slug = slug,
                                                !.updated_at = SqlNow]]
            ELSE posts
      old == IF dirs[name].info # NoFile THEN Read(dirs[name].info) ELSE <<>>
      d1 == writeContent(dirs, name, content)
      d2 == writeInfo(d1, name, MergeInfo(old, title, slug))
      throw(err, p, d) == [ok |-> FALSE, err |-> err, posts |-> p, dirs |-> d]
  IN  IF ~existsSync(name) THEN throw("ENOENT", posts, dirs)
      ELSE IF f = "content" THEN throw("EIO", posts, dirs)
      ELSE IF f = "info" THEN throw("EIO", posts, d1)
      ELSE IF id \in DOMAIN posts /\ SlugConflict(posts, id, slug)
      THEN throw("SQLITE_CONSTRAINT_UNIQUE", posts, d2)
      ELSE [ok |-> TRUE, err |-> "none", posts |-> p1, dirs |-> d2]

\* The outcome of updatePost(id, title, content): UPDATE, then the content
\* file, then the snapshot, with no transaction around them.
updatePost(id, title, content, f) ==
  LET slug == createSlug(title)
      name == DirName(id)
      p1 == IF id \in DOMAIN posts
            THEN [posts EXCEPT ![id] = [@ EXCEPT !.title = title, !.slug = slug,
                                                !.updated_at = SqlNow]]
            ELSE posts
      old == IF dirs[name].info # NoFile THEN Read(dirs[name].info) ELSE <<>>
      d1 == writeContent(dirs, name, content)
      d2 == writeInfo(d1, name, MergeInfo(old, title, slug))
      throw(err, p, d) == [ok |-> FALSE, err |-> err, posts |-> p, dirs |-> d]
  IN  IF id \in DOMAIN posts /\ SlugConflict(posts, id, slug)
      THEN throw("SQLITE_CONSTRAINT_UNIQUE", posts, dirs)
      ELSE IF ~existsSync(name) THEN throw("ENOENT", p1, dirs)
      ELSE IF f = "content" THEN throw("EIO", p1, dirs)
      ELSE IF f = "info" THEN throw("EIO", p1, d1)
      ELSE [ok |-> TRUE, err |-> "none", posts |-> p1, dirs |-> d2]

\* PUT /api/post/:id
UpdateReq(s, id, title, content, f) ==
  /\ Step
  /\ UNCHANGED <<slugVars, calls>>
  /\ IF ~Authorized(s)
     THEN Respond("update", 401, 0, "auth") /\ UNCHANGED stores
     ELSE IF title = <<>> \/ content = ""
     THEN Respond("update", 400, 0, "validation") /\ UNCHANGED stores
     ELSE LET r == updatePost(id, title, content, f)
          IN  /\ posts' = r.posts
              /\ dirs' = r.dirs
              /\ Respond("update", IF r.ok THEN 200 ELSE 400, id, r.err)
              /\ UNCHANGED <<seq, uploads>>
  /\ UNCHANGED <<users, sessions, clock, history>>

\* -------------------------------------------------------------- deletePost
DeleteFaults == {"none", "rm"}

\* Mutant: fs.rmdirSync instead of a recursive fs.rmSync: a directory that
\* still holds files is not removed, and the error is swallowed.
deletePostRmdir(id, f) ==
  LET name == DirName(id)
      p1 == Remove(posts, id)
      empty == existsSync(name) /\ dirs[name] = EmptyDir
  IN  IF existsSync(name) /\ f = "rm"
      THEN [ok |-> FALSE, err |-> "EIO", posts |-> p1, dirs |-> dirs]
      ELSE [ok |-> TRUE, err |-> "none", posts |-> p1,
            dirs |-> IF empty THEN Remove(dirs, name) ELSE dirs]

\* DELETE the row, then fs.rmSync the directory when it exists.
deletePost(id, f) ==
  LET name == DirName(id)
      p1 == Remove(posts, id)
  IN  IF existsSync(name) /\ f = "rm"
      THEN [ok |-> FALSE, err |-> "EIO", posts |-> p1, dirs |-> dirs]
      ELSE [ok |-> TRUE, err |-> "none", posts |-> p1, dirs |-> Remove(dirs, name)]

\* DELETE /api/post/:id
DeleteReq(s, id, f) ==
  /\ Step
  /\ UNCHANGED <<slugVars, calls>>
  /\ IF ~Authorized(s)
     THEN Respond("delete", 401, 0, "auth") /\ UNCHANGED stores
     ELSE LET r == deletePost(id, f)
          IN  /\ posts' = r.posts
              /\ dirs' = r.dirs
              /\ Respond("delete", IF r.ok THEN 200 ELSE 500, id, r.err)
              /\ UNCHANGED <<seq, uploads>>
  /\ UNCHANGED <<users, sessions, clock, history>>

\* ------------------------------------------------ rebuildDatabaseFromFiles
RebuildFaults == {"none", "readdir"}

\* /^\d+$/.test(dirent.name)
IsNumericName(name) == name \in {ToString(i) : i \in 0..(MaxId + MaxSteps)}

SnapshotFields == {"id", "title", "slug", "created_at", "updated_at"}

\* better-sqlite3 binds no undefined: a snapshot lacking one of the five
\* fields makes .run() throw, which the per-directory try/catch swallows.
Bindable(info) == SnapshotFields \subseteq DOMAIN info

\* Mutant: a plain INSERT that leaves the id to AUTOINCREMENT; a slug
\* already in the table makes it throw, which the loop swallows.
InsertAutoId(t, info) ==
  LET id == Max(t.seq, MaxRowid(t.posts)) + 1
      row == [title |-> info.title, slug |-> info.slug,
              created_at |-> info.created_at, updated_at |-> info.updated_at]
  IN  IF SlugConflict(t.posts, id, info.slug) THEN t
      ELSE [posts |-> Put(t.posts, id, row), seq |-> id]

\* INSERT OR REPLACE: the rows that conflict on the primary key or on the
\* UNIQUE slug are deleted, then the row is inserted; an explicit rowid
\* raises the AUTOINCREMENT high-water mark.
InsertOrReplace(t, info) ==
  LET keep == {i \in DOMAIN t.posts : i # info.id /\ t.posts[i].slug # info.slug}
      row == [title |-> info.title, slug |-> info.slug,
              created_at |-> info.created_at, updated_at |-> info.updated_at]
  IN  [posts |-> [i \in keep \cup {info.id} |-> IF i = info.id THEN row ELSE t.posts[i]],
       seq |-> Max(t.seq, info.id)]

\* One iteration of the loop over articleFolders.
RebuildFolder(t, folder) ==
  IF dirs[folder].info # NoFile /\ Bindable(Read(dirs[folder].info))
  THEN InsertOrReplace(t, Read(dirs[folder].info))
  ELSE t

RECURSIVE RebuildLoop(_, _)
RebuildLoop(t, folders) ==
  IF folders = <<>> THEN t
  ELSE RebuildLoop(RebuildFolder(t, Head(folders)), Tail(folders))

\* The orders in which fs.readdirSync may list the numeric directories.
ReaddirOrders ==
  LET S == {n \in DOMAIN dirs : IsNumericName(n)}
  IN  {q \in [1..Cardinality(S) -> S] : \A i, j \in 1..Cardinality(S) : i # j => q[i] # q[j]}

\* DELETE FROM posts leaves sqlite_sequence as it is.
rebuildDatabaseFromFiles(folders) == RebuildLoop([posts |-> <<>>, seq |-> seq], folders)

\* POST /api/rebuild-database
RebuildReq(s, f) ==
  /\ Step
  /\ UNCHANGED <<slugVars, calls>>
  /\ IF ~Authorized(s)
     THEN Respond("rebuild", 401, 0, "auth") /\ UNCHANGED <<stores, everRows>>
     ELSE IF f = "readdir"
     THEN /\ posts' = <<>>
          /\ Respond("rebuild", 500, 0, "EIO")
          /\ UNCHANGED <<seq, dirs, uploads, everRows>>
     ELSE \E folders \in ReaddirOrders :
            LET t == rebuildDatabaseFromFiles(folders)
            IN  /\ posts' = t.posts
                /\ seq' = t.seq
                /\ everRows' = everRows \cup DOMAIN t.posts
                /\ Respond("rebuild", 200, 0, "none")
                /\ UNCHANGED <<dirs, uploads>>
  /\ UNCHANGED <<users, sessions, clock, issued, loggedIn>>

\* ------------------------------------------------------------------ upload
\* Mutant: the ceiling counted in decimal megabytes.
UploadLimitDecimal == 10 * 1000 * 1000

UploadLimit == 10 * 1024 * 1024
\* File sizes in bytes: a small file, exactly 10 MiB, one byte more.
UploadSizes == {1, 10485760, 10485761}
UploadTargets == {DirName(i) : i \in Ids}
UploadFaults == {"none", "read", "write"}

\* Requests of the upload route: <<a file is attached, its size, the fs call
\* that throws>>.
UploadInputs ==
  ({TRUE} \X UploadSizes \X UploadFaults) \cup {<<FALSE, 0, "none">>}
TmpFile == "tmp"

\* upload.single('image'): multer stages the file under uploads/ before the
\* handler runs.
multerStage(files) == files \cup {TmpFile}

\* Mutant: the temporary file is left where multer put it.
unlinkSyncSkip(files, path) == files

\* fs.unlinkSync(req.file.path)
unlinkSync(files, path) == files \ {path}

\* uploadImageToPost: the assets directory is made when missing
\* (recursively, so the post directory too), then the file is written.
uploadImageToPost(postId, uniqueName, f) ==
  LET d1 == IF existsSync(postId) THEN dirs ELSE Put(dirs, postId, EmptyDir)
  IN  IF f = "write" THEN [ok |-> FALSE, dirs |-> d1]
      ELSE [ok |-> TRUE,
            dirs |-> Put(d1, postId, [d1[postId] EXCEPT !.assets = @ \cup {uniqueName}])]

\* POST /api/upload-image/:postId
UploadReq(s, postId, hasFile, size, uniqueName, f) ==
  /\ Step
  /\ UNCHANGED <<slugVars, calls>>
  /\ IF ~Authorized(s)
     THEN Respond("upload", 401, 0, "auth") /\ UNCHANGED stores
     ELSE IF ~hasFile
     THEN Respond("upload", 400, 0, "nofile") /\ UNCHANGED stores
     ELSE LET staged == multerStage(uploads)
              unlinked == unlinkSync(staged, TmpFile)
          IN  IF size > UploadLimit
              THEN /\ uploads' = unlinked
                   /\ Respond("upload", 400, 0, "size")
                   /\ UNCHANGED <<posts, seq, dirs>>
              ELSE IF f = "read"
              THEN /\ uploads' = unlinked
                   /\ Respond("upload", 500, 0, "EIO")
                   /\ UNCHANGED <<posts, seq, dirs>>
              ELSE LET r == uploadImageToPost(postId, uniqueName, f)
                   IN  /\ dirs' = r.dirs
                       /\ uploads' = unlinked
                       /\ Respond("upload", IF r.ok THEN 200 ELSE 500, 0,
                                  IF r.ok THEN "none" ELSE "EIO")
                       /\ UNCHANGED <<posts, seq>>
  /\ UNCHANGED <<users, sessions, clock, history>>

\* ------------------------------------------------------------------- users
\* Mutant: the count is taken of another table and is always 0.
getUserCountZero == Cardinality({})

hashPassword(password, salt) == <<password, salt>>

getUserCount == Cardinality(users)

createUser(username, passwordHash, salt) ==
  users \cup {[id |-> Cardinality(users) + 1, username |-> username,
               password_hash |-> passwordHash, salt |-> salt]}

\* POST /api/setup-admin
SetupAdmin(username, password, salt) ==
  /\ Step
  /\ UNCHANGED <<slugVars, calls>>
  /\ IF getUserCount > 0
     THEN Respond("setup", 403, 0, "exists") /\ UNCHANGED users
     ELSE IF username = "" \/ password = ""
     THEN Respond("setup", 400, 0, "validation") /\ UNCHANGED users
     ELSE /\ users' = createUser(username, hashPassword(password, salt), salt)
          /\ Respond("setup", 200, 0, "none")
  /\ UNCHANGED <<stores, sessions, clock, history>>

\* POST /api/login
Login(s, username, password) ==
  /\ Step
  /\ UNCHANGED <<slugVars, calls>>
  /\ IF \E u \in users : u.username = username
                         /\ hashPassword(password, u.salt) = u.password_hash
     THEN /\ sessions' = [sessions EXCEPT ![s] =
                            (CHOOSE u \in users : u.username = username).id]
          /\ loggedIn' = loggedIn \cup {s}
          /\ Respond("login", 200, 0, "none")
     ELSE Respond("login", 401, 0, "auth") /\ UNCHANGED <<sessions, loggedIn>>
  /\ UNCHANGED <<stores, users, clock, issued, everRows>>

\* POST /api/logout
Logout(s) ==
  /\ Step
  /\ UNCHANGED <<slugVars, calls>>
  /\ sessions' = [sessions EXCEPT ![s] = NoUser]
  /\ loggedIn' = loggedIn \ {s}
  /\ Respond("logout", 200, 0, "none")
  /\ UNCHANGED <<stores, users, clock, issued, everRows>>

\* Time passes between requests.
Tick ==
  /\ Step
  /\ UNCHANGED <<slugVars, calls>>
  /\ clock' = clock + 1
  /\ UNCHANGED <<stores, users, sessions, resp, history>>

Init ==
  /\ posts = <<>>
  /\ seq = 0
  /\ dirs = <<>>
  /\ uploads = {}
  /\ users = {}
  /\ sessions = [s \in Sessions |-> NoUser]
  /\ clock = 0
  /\ resp = [op |-> "start", status |-> 0, id |-> 0, err |-> "none"]
  /\ issued = {}
  /\ everRows = {}
  /\ loggedIn = {}
  /\ steps = 0
  /\ draft = <<>>
  /\ slugs = <<>>
  /\ calls = [c \in Clients |-> NoCall]

\* The requests of the storage core, sent by session s.
StoreRequest(s) ==
  \/ \E i \in CreateInputs : CreateReq(s, i[1], i[2], i[3])
  \/ \E id \in Ids, i \in UpdateInputs : UpdateReq(s, id, i[1], i[2], i[3])
  \/ \E id \in Ids, f \in DeleteFaults : DeleteReq(s, id, f)
  \/ \E f \in RebuildFaults : RebuildReq(s, f)
  \/ \E d \in UploadTargets, i \in UploadInputs, n \in AssetNames :
       UploadReq(s, d, i[1], i[2], n, i[3])

Next ==
  \/ \E s \in Sessions : StoreRequest(s)
  \/ \E u \in Usernames \cup {""}, p \in {"p", ""}, salt \in Salts : SetupAdmin(u, p, salt)
  \/ \E s \in Sessions, u \in Usernames, p \in Passwords : Login(s, u, p)
  \/ \E s \in Sessions : Logout(s)
  \/ Tick

\* The whole server, from a fresh deployment.
Spec == Init /\ [][Next]_vars

\* The storage core driven by one logged-in administrator.
Admin == [id |-> 1, username |-> "admin", password_hash |-> hashPassword("p", "s"), salt |-> "s"]

InitStore ==
  /\ posts = <<>>
  /\ seq = 0
  /\ dirs = <<>>
  /\ uploads = {}
  /\ users = {Admin}
  /\ sessions = [s \in Sessions |-> IF s = "s1" THEN Admin.id ELSE NoUser]
  /\ clock = 0
  /\ resp = [op |-> "login", status |-> 200, id |-> 0, err |-> "none"]
  /\ issued = {}
  /\ everRows = {}
  /\ loggedIn = {"s1"}
  /\ steps = 0
  /\ draft = <<>>
  /\ slugs = <<>>
  /\ calls = [c \in Clients |-> NoCall]

NextStore ==
  \/ StoreRequest("s1")
  \/ Tick

SpecStore == InitStore /\ [][NextStore]_vars

\* The same with no upload: Create, Update, Delete and Reconciliation only.
NextCRUD ==
  \/ \E i \in CreateInputs : CreateReq("s1", i[1], i[2], i[3])
  \/ \E id \in Ids, i \in UpdateInputs : UpdateReq("s1", id, i[1], i[2], i[3])
  \/ \E id \in Ids, f \in DeleteFaults : DeleteReq("s1", id, f)
  \/ \E f \in RebuildFaults : RebuildReq("s1", f)
  \/ Tick

SpecCRUD == InitStore /\ [][NextCRUD]_vars

\* ------------------------------------------------------------ createSlug
\* Characters a title is typed from: word characters in both cases, a
\* letter of the Cyrillic block, a blank and the separator itself.
TitleChars == {"A", "b", "ZH", " ", "-"}

Typed == IF Len(draft) >= LongRun THEN Len(draft) - LongRun ELSE Len(draft)

\* One more character of req.body.title.
Type(c) ==
  /\ Typed < MaxTyped
  /\ draft' = Append(draft, c)
  /\ slugs' = <<>>
  /\ UNCHANGED <<stores, users, sessions, clock, resp, history, steps, calls>>

\* A long run of word characters in req.body.title.
Paste ==
  /\ Len(draft) < LongRun
  /\ draft' = draft \o [i \in 1..LongRun |-> "a"]
  /\ slugs' = <<>>
  /\ UNCHANGED <<stores, users, sessions, clock, resp, history, steps, calls>>

\* const slug = createSlug(title)
Derive ==
  /\ Len(slugs) < MaxCalls
  /\ slugs' = Append(slugs, createSlug(draft))
  /\ UNCHANGED <<stores, users, sessions, clock, resp, history, steps, draft, calls>>

NextSlug ==
  \/ \E c \in TitleChars : Type(c)
  \/ Paste
  \/ Derive

\* createSlug applied to the titles a client can compose.
SpecSlug == Init /\ [][NextSlug]_vars

\* -------------------------------------------------------------- event loop
\* The body each client sends.
UpdateBody(c) ==
  IF c = "c1" THEN [title |-> <<"A">>, content |-> "x"]
  ELSE [title |-> <<"b">>, content |-> "y"]

\* Mutant: handlers start on a thread of their own.
CallStackAny == TRUE

\* Node runs one callback at a time: a handler starts when no handler is
\* between its first and its last statement.  updatePost and its route
\* have no await and no callback, so they are one callback.
CallStackEmpty == \A c \in Clients : calls[c].pc \notin {"content", "info"}

\* The request of client c reaches the server and waits for the event loop.
Send(c, id) ==
  /\ calls[c].pc = "idle"
  /\ calls' = [calls EXCEPT ![c] = [pc |-> "sent", id |-> id, waited |-> FALSE]]
  /\ UNCHANGED <<stores, users, sessions, clock, resp, history, steps, slugVars>>

\* The handler of c starts: requireAuth and the validation pass, and
\* updatePost runs its UPDATE.  The requests that are waiting then have
\* waited while another handler ran.
Begin(c) ==
  /\ calls[c].pc = "sent"
  /\ CallStackEmpty
  /\ Authorized("s1")
  /\ LET id == calls[c].id
         t == UpdateBody(c).title
         slug == createSlug(t)
         others(pc) == [d \in Clients |->
                          IF d = c THEN [calls[d] EXCEPT !.pc = pc]
                          ELSE IF calls[d].pc = "sent" /\ pc = "content"
                          THEN [calls[d] EXCEPT !.waited = TRUE]
                          ELSE calls[d]]
     IN  IF id \in DOMAIN posts /\ SlugConflict(posts, id, slug)
         THEN /\ posts' = posts
              /\ calls' = others("failed")
              /\ Respond("update", 400, id, "SQLITE_CONSTRAINT_UNIQUE")
         ELSE /\ posts' = IF id \in DOMAIN posts
                          THEN [posts EXCEPT ![id] = [@ EXCEPT !.title = t, !.slug = slug,
                                                              !.updated_at = SqlNow]]
                          ELSE posts
              /\ calls' = others("content")
              /\ resp' = resp
  /\ UNCHANGED <<seq, dirs, uploads, users, sessions, clock, history, steps, slugVars>>

\* fs.writeFileSync(contentPath, content, 'utf8')
WriteContentStep(c) ==
  /\ calls[c].pc = "content"
  /\ LET name == DirName(calls[c].id)
     IN  IF ~existsSync(name)
         THEN /\ dirs' = dirs
              /\ calls' = [calls EXCEPT ![c].pc = "failed"]
              /\ Respond("update", 400, calls[c].id, "ENOENT")
         ELSE /\ dirs' = writeContent(dirs, name, UpdateBody(c).content)
              /\ calls' = [calls EXCEPT ![c].pc = "info"]
              /\ resp' = resp
  /\ UNCHANGED <<posts, seq, uploads, users, sessions, clock, history, steps, slugVars>>

\* The snapshot is read, merged and written, and the route answers.
WriteInfoStep(c) ==
  /\ calls[c].pc = "info"
  /\ LET name == DirName(calls[c].id)
         t == UpdateBody(c).title
         old == IF dirs[name].info # NoFile THEN Read(dirs[name].info) ELSE <<>>
     IN  dirs' = writeInfo(dirs, name, MergeInfo(old, t, createSlug(t)))
  /\ calls' = [calls EXCEPT ![c].pc = "ok"]
  /\ Respond("update", 200, calls[c].id, "none")
  /\ UNCHANGED <<posts, seq, uploads, users, sessions, clock, history, steps, slugVars>>

NextLoop ==
  \/ \E t \in Titles, x \in Contents : CallStackEmpty /\ CreateReq("s1", t, x, "none")
  \/ \E c \in Clients, id \in Ids : Send(c, id)
  \/ \E c \in Clients : Begin(c)
  \/ \E c \in Clients : WriteContentStep(c)
  \/ \E c \in Clients : WriteInfoStep(c)

\* Two clients updating posts at the same time, statement by statement.
SpecLoop == InitStore /\ [][NextLoop]_vars

\* ================================================================= claims
ValidBody(i) == i[1] # <<>> /\ i[2] # ""

SlugExists(slug) == \E j \in DOMAIN posts : posts[j].slug = slug

\* C1: a Create whose derived slug is the slug of an existing row fails, and
\* the posts table and the articles root are afterwards what they were
\* before the call.
C1_DuplicateSlugCreateFails ==
  [][\A s \in Sessions, i \in CreateInputs :
       (/\ resp'.op = "create" /\ Authorized(s) /\ ValidBody(i)
        /\ SlugExists(createSlug(i[1]))
        /\ CreateReq(s, i[1], i[2], i[3]))
       => (resp'.status = 400 /\ posts' = posts /\ seq' = seq /\ dirs' = dirs)]_vars

C1_Witness ==
  /\ resp.op = "create"
  /\ resp.err = "SQLITE_CONSTRAINT_UNIQUE"
  /\ DOMAIN posts # {}

\* C2 (as claimed): whatever step of a Create fails, afterwards either the
\* row, the directory, the content file and the snapshot of the new post all
\* exist, or the two stores hold nothing they did not hold before.
C2_CreateAllOrNothing ==
  [][\A s \in Sessions, i \in CreateInputs :
       (/\ resp'.op = "create" /\ Authorized(s) /\ ValidBody(i)
        /\ CreateReq(s, i[1], i[2], i[3]))
       => LET id == NextRowid
              name == DirName(id)
          IN  \/ /\ id \in DOMAIN posts'
                 /\ name \in DOMAIN dirs'
                 /\ dirs'[name].content # NoFile
                 /\ dirs'[name].info # NoFile
              \/ posts' = posts /\ dirs' = dirs]_vars

\* C3: after a successful Create(title, content) returning id, Read-by-id of
\* that id returns the supplied title and content, whatever the articles
\* root held before.
C3_ReadAfterCreate ==
  [][\A s \in Sessions, i \in CreateInputs :
       (/\ resp'.op = "create" /\ resp'.status = 200
        /\ CreateReq(s, i[1], i[2], i[3]))
       => LET post == getPostById(resp.id)'
          IN  post.found /\ post.id = resp'.id /\ post.title = i[1] /\ post.content = i[2]]_vars

\* A Create that succeeded into a directory left behind by an upload.
C3_Witness ==
  /\ resp.op = "create"
  /\ resp.status = 200
  /\ dirs[DirName(resp.id)].assets # {}

\* C4: a successful Update(id, title, content) of an existing post sets the
\* row's title, slug and updated_at and the content file, keeps the id and
\* created_at of the row and of the snapshot, and changes no other post's
\* row or files.
C4_UpdateFrame ==
  [][\A s \in Sessions, id \in Ids, i \in UpdateInputs :
       (/\ resp'.op = "update" /\ resp'.status = 200 /\ resp'.id = id
        /\ id \in DOMAIN posts
        /\ UpdateReq(s, id, i[1], i[2], i[3]))
       => LET name == DirName(id)
              old == Read(dirs[name].info)
              new == Read(dirs'[name].info)
          IN  /\ DOMAIN posts' = DOMAIN posts
              /\ posts'[id].title = i[1]
              /\ posts'[id].slug = createSlug(i[1])
              /\ posts'[id].updated_at = <<"sql", clock>>
              /\ posts'[id].created_at = posts[id].created_at
              /\ \A j \in DOMAIN posts \ {id} : posts'[j] = posts[j]
              /\ DOMAIN dirs' = DOMAIN dirs
              /\ dirs'[name].content = {i[2]}
              /\ dirs'[name].assets = dirs[name].assets
              /\ dirs[name].info # NoFile /\ dirs'[name].info # NoFile
              /\ {"id", "created_at"} \subseteq DOMAIN old
              /\ {"id", "created_at"} \subseteq DOMAIN new
              /\ new.id = id /\ new.id = old.id
              /\ new.created_at = old.created_at
              /\ new.title = i[1] /\ new.slug = createSlug(i[1])
              /\ \A n \in DOMAIN dirs \ {name} : dirs'[n] = dirs[n]]_vars

\* An Update of a live post, later than its creation, beside another post.
C4_Witness ==
  /\ resp.op = "update"
  /\ resp.status = 200
  /\ resp.id \in DOMAIN posts
  /\ posts[resp.id].updated_at[2] > posts[resp.id].created_at[2]
  /\ Cardinality(DOMAIN posts) > 1

\* C5: after Delete(id) has returned, the posts table has no row with that
\* id, the articles root has no directory for it, and Read-by-id of that id
\* returns not-found.
C5_DeleteRemovesBoth ==
  (resp.op = "delete" /\ resp.status = 200)
  => /\ resp.id \notin DOMAIN posts
     /\ ~existsSync(DirName(resp.id))
     /\ ~getPostById(resp.id).found

\* A Delete of a post that had been created.
C5_Witness ==
  /\ resp.op = "delete"
  /\ resp.status = 200
  /\ resp.id \in issued
\* The ids of the numeric directories that hold a snapshot with all five
\* fields.
ValidSnapshotIds ==
  {Read(dirs[n].info).id :
     n \in {m \in DOMAIN dirs : /\ IsNumericName(m)
                                /\ dirs[m].info # NoFile
                                /\ {"id", "title", "slug", "created_at", "updated_at"}
                                     \subseteq DOMAIN Read(dirs[m].info)}}

SnapshotOf(id) == Read(dirs[DirName(id)].info)

\* C6 (as claimed): after a Reconciliation the posts table has exactly one
\* row per directory with a valid snapshot, equal to the snapshot's id,
\* title, slug, created_at and updated_at.
C6_RebuildYieldsSnapshots ==
  (resp.op = "rebuild" /\ resp.status = 200)
  => /\ DOMAIN posts = ValidSnapshotIds
     /\ Cardinality(DOMAIN posts) =
          Cardinality({n \in DOMAIN dirs : dirs[n].info # NoFile
                                           /\ "id" \in DOMAIN Read(dirs[n].info)})
     /\ \A id \in DOMAIN posts :
          /\ posts[id].title = SnapshotOf(id).title
          /\ posts[id].slug = SnapshotOf(id).slug
          /\ posts[id].created_at = SnapshotOf(id).created_at
          /\ posts[id].updated_at = SnapshotOf(id).updated_at

\* C7 (as claimed): the id a successful Create returns is larger than every
\* id a Create returned before, and is the id of no earlier post and of no
\* existing directory.
C7_FreshIds ==
  [][\A s \in Sessions, i \in CreateInputs :
       (/\ resp'.op = "create" /\ resp'.status = 200
        /\ CreateReq(s, i[1], i[2], i[3]))
       => /\ \A j \in issued : resp'.id > j
          /\ resp'.id \notin everRows
          /\ ~existsSync(DirName(resp'.id))]_vars

StoreOps == {"create", "update", "delete", "rebuild", "upload"}

\* C8: a Create, Update, Delete, Reconciliation or Upload request of a
\* session that has not logged in successfully, or has logged out since, is
\* answered 401 and leaves both stores as they were.
C8_MutationsNeedLogin ==
  [][\A s \in Sessions :
       (s \notin loggedIn /\ resp'.op \in StoreOps /\ StoreRequest(s))
       => (resp'.status = 401 /\ UNCHANGED <<posts, seq, dirs, uploads>>)]_vars

\* A store request refused while another session is logged in.
C8_Witness ==
  /\ resp.op \in StoreOps
  /\ resp.status = 401
  /\ loggedIn # {}

\* C9: setup-admin creates a user only while the users table is empty and
\* is refused once a user exists; there is never more than one user, and a
\* non-empty users table never becomes empty again.
C9_SingleAdmin ==
  [][/\ Cardinality(users') <= 1
     /\ users # {} => users' = users
     /\ \A u \in Usernames \cup {""}, p \in Passwords \cup {""}, salt \in Salts :
          (users # {} /\ resp'.op = "setup" /\ SetupAdmin(u, p, salt))
          => resp'.status = 403]_vars

C9_Witness ==
  /\ resp.op = "setup"
  /\ resp.status = 403
  /\ Cardinality(users) = 1

\* C10: an upload of more than 10 MiB is refused with the size-limit error
\* and leaves the articles root, the target's assets with it, as it was; an
\* upload of exactly 10 MiB is accepted and stored.
C10_UploadCeiling ==
  [][(resp'.op = "upload" /\ clock' = clock) =>
       \A s \in {x \in Sessions : Authorized(x)},
          i \in {j \in UploadInputs : j[1] /\ j[2] >= 10485760},
          d \in UploadTargets, n \in AssetNames :
         UploadReq(s, d, i[1], i[2], n, i[3])
         => /\ i[2] > 10485760
                 => (resp'.status = 400 /\ resp'.err = "size" /\ dirs' = dirs)
            /\ (i[2] = 10485760 /\ i[3] = "none")
                 => (resp'.status = 200 /\ d \in DOMAIN dirs' /\ n \in dirs'[d].assets)]_vars

\* An oversized upload refused for a post that has assets.
C10_Witness ==
  /\ resp.op = "upload"
  /\ resp.err = "size"
  /\ \E d \in DOMAIN dirs : dirs[d].assets # {}

\* C11: whenever an upload request that staged a temporary file has been
\* answered (stored, refused as oversized, or failed while the temporary
\* file was read or the asset written), the temporary file is gone.
C11_TempFileRemoved ==
  (resp.op = "upload" /\ resp.err \in {"none", "size", "EIO"})
  => TmpFile \notin uploads

\* An upload that failed on the error path of the handler.
C11_Witness ==
  /\ resp.op = "upload"
  /\ resp.status = 500
  /\ TmpFile \notin uploads

\* C12: in every state reached by completed Create, Update, Delete, Upload
\* and Reconciliation operations, each row of the posts table has the
\* directory named by its id, and that directory holds a snapshot with the
\* same id.
C12_RowHasDirectory ==
  \A id \in DOMAIN posts :
    /\ existsSync(DirName(id))
    /\ Cardinality({n \in DOMAIN dirs : n = DirName(id)}) = 1
    /\ dirs[DirName(id)].info # NoFile
    /\ "id" \in DOMAIN Read(dirs[DirName(id)].info)
    /\ Read(dirs[DirName(id)].info).id = id

\* A row that an Update has rewritten, beside a directory with no row.
C12_Witness ==
  /\ resp.op = "update"
  /\ resp.status = 200
  /\ resp.id \in DOMAIN posts
  /\ \E n \in DOMAIN dirs : \A id \in DOMAIN posts : n # DirName(id)

\* C13: the calls of createSlug on one title all return the same slug; a
\* slug holds only word characters, characters of U+0400..U+04FF and the
\* separator '-'; and it is at most 100 characters long.
C13_SlugWellFormed ==
  \A i \in DOMAIN slugs :
    /\ \A j \in DOMAIN slugs : slugs[j] = slugs[i]
    /\ \A k \in DOMAIN slugs[i] : Permitted(slugs[i][k]) \/ slugs[i][k] = "-"
    /\ Len(slugs[i]) <= 100

\* Two calls on a title of more than 100 characters that has a separator.
C13_Witness ==
  /\ Len(draft) > 100
  /\ Len(slugs) = 2
  /\ \E k \in DOMAIN slugs[1] : slugs[1][k] = "-"

\* C17 (as claimed): a slug createSlug returns neither begins nor ends with
\* the separator '-' and has no two separators side by side, also for a
\* title of more than 100 characters, which is truncated.
C17_NoOuterSeparator ==
  \A i \in DOMAIN slugs :
    LET slug == slugs[i]
    IN  /\ slug # <<>> => (slug[1] # "-" /\ slug[Len(slug)] # "-")
        /\ \A k \in 1..(Len(slug) - 1) : ~(slug[k] = "-" /\ slug[k + 1] = "-")

\* The posts that were deleted while their directory stayed: a directory
\* with a complete snapshot of an id that had a row and has none.
Orphans ==
  {id \in everRows \ DOMAIN posts :
     /\ existsSync(DirName(id))
     /\ dirs[DirName(id)].info # NoFile
     /\ Bindable(Read(dirs[DirName(id)].info))
     /\ Read(dirs[DirName(id)].info).id = id}

\* C14 (as claimed): a Delete that stops after the row is removed and
\* before the directory is leaves the directory with its snapshot and no
\* row, and a following Reconciliation puts a row for that post into the
\* posts table again.
C14_DeleteThenResurrect ==
  [][/\ \A s \in Sessions, id \in Ids :
          (/\ resp'.op = "delete" /\ resp'.status = 500
           /\ id \in DOMAIN posts
           /\ DeleteReq(s, id, "rm"))
          => (id \notin DOMAIN posts' /\ dirs' = dirs)
     /\ \A s \in Sessions :
          (/\ resp'.op = "rebuild" /\ resp'.status = 200
           /\ Orphans # {}
           /\ RebuildReq(s, "none"))
          => Orphans \subseteq DOMAIN posts']_vars

\* C15: a Reconciliation run again right after a Reconciliation, on the
\* same articles root listed in the same order, leaves the posts table
\* equal to the table the first run left.
C15_RebuildIdempotent ==
  [][(resp'.op = "rebuild" /\ resp'.status = 200) =>
       \A s \in Sessions :
         RebuildReq(s, "none")
         => \A folders \in ReaddirOrders :
              posts' = rebuildDatabaseFromFiles(folders).posts
              => (rebuildDatabaseFromFiles(folders)').posts = posts']_vars

\* A Reconciliation over two directories whose snapshots have one slug,
\* where the table depends on the order of the listing.
C15_Witness ==
  /\ resp.op = "rebuild"
  /\ resp.status = 200
  /\ DOMAIN posts # {}
  /\ \E m, n \in DOMAIN dirs :
       /\ m # n
       /\ dirs[m].info # NoFile /\ Bindable(Read(dirs[m].info))
       /\ dirs[n].info # NoFile /\ Bindable(Read(dirs[n].info))
       /\ Read(dirs[m].info).slug = Read(dirs[n].info).slug

\* C18 (as claimed): after Create, Update and Delete calls that each ran to
\* completion, with success or with a reported failure, every row's id,
\* title and slug are those of the snapshot in its directory and every
\* directory with a snapshot has a row, so that a Reconciliation would
\* leave the (id, title, slug) of the rows as they are.
C18_RowsMatchSnapshots ==
  /\ \A id \in DOMAIN posts :
       /\ existsSync(DirName(id))
       /\ dirs[DirName(id)].info # NoFile
       /\ Bindable(Read(dirs[DirName(id)].info))
       /\ Read(dirs[DirName(id)].info).id = id
       /\ Read(dirs[DirName(id)].info).title = posts[id].title
       /\ Read(dirs[DirName(id)].info).slug = posts[id].slug
  /\ \A n \in DOMAIN dirs :
       dirs[n].info # NoFile
       => /\ "id" \in DOMAIN Read(dirs[n].info)
          /\ Read(dirs[n].info).id \in DOMAIN posts

\* C19: an Update of an existing post whose new slug is the slug of another
\* existing post fails, and the rows and the directories of both posts,
\* the content and snapshot files with them, are afterwards what they were.
C19_UpdateSlugConflict ==
  [][(resp'.op = "update" /\ clock' = clock) =>
       \A s \in {x \in Sessions : Authorized(x)},
          id \in Ids \cap DOMAIN posts,
          i \in {j \in UpdateInputs : ValidBody(j)} :
         (/\ SlugConflict(posts, id, createSlug(i[1]))
          /\ UpdateReq(s, id, i[1], i[2], i[3]))
         => /\ resp'.status = 400
            /\ resp'.err = "SQLITE_CONSTRAINT_UNIQUE"
            /\ posts' = posts
            /\ dirs' = dirs]_vars

\* A refused Update of a post that has its directory and snapshot.
C19_Witness ==
  /\ resp.op = "update"
  /\ resp.err = "SQLITE_CONSTRAINT_UNIQUE"
  /\ resp.id \in DOMAIN posts
  /\ existsSync(DirName(resp.id))
  /\ dirs[DirName(resp.id)].info # NoFile

\* C20 (as claimed): an Update or an Upload for an id that has no row in
\* the posts table leaves the articles root as it was, also when a
\* directory of that id was left behind.
C20_RowlessIdFrame ==
  [][(resp'.op \in {"update", "upload"} /\ clock' = clock) =>
       \A s \in {x \in Sessions : Authorized(x)}, id \in Ids \ DOMAIN posts :
         /\ \A i \in UpdateInputs :
              UpdateReq(s, id, i[1], i[2], i[3]) => dirs' = dirs
         /\ \A i \in UploadInputs, n \in AssetNames :
              UploadReq(s, DirName(id), i[1], i[2], n, i[3]) => dirs' = dirs]_vars

====
